---- MODULE Spec2Model ----
(***************************************************************************)
(* WS2812B::Transmitter (src/pwm.h, lines 303-593): the tick-driven        *)
(* encoder/modulator, its reentrancy guard and the non-interrupt           *)
(* operations configure, feed, start and asynch_reset.                     *)
(*                                                                         *)
(* The timer interrupt (timer_ISR -> tick) runs to completion and is one   *)
(* atomic action.  The non-interrupt operations run in the main context    *)
(* and can be preempted by the interrupt between any two statements, so    *)
(* they are executed one statement per step (pc, stack).                   *)
(*                                                                         *)
(* Durations are integers in nanoseconds.  The float arithmetic of         *)
(* configure is exact on the periods used here (no quotient or product is  *)
(* within rounding distance of a comparison boundary).                     *)
(***************************************************************************)
EXTENDS Integers, Sequences, FiniteSets, TLC

\* ---------------------------------------------------------------- bounds
\* uint32_t tick_counter / ticks_required wrap modulo 2^32 in the program;
\* the model keeps the wrap-around with a smaller modulus, which has to
\* exceed twice the largest reset count.
CounterMod == 256
\* number of configure calls that may fail (each leaves one lock behind)
MaxLeak == 1
\* number of timer interrupts that preempt one call of a public operation
\* (a call is a dozen statements long)
MaxPreempt == 1

\* ------------------------------------------------------ program constants
T0H == 400
T1H == 800
T0L == 850
T1L == 450
T_ERROR == 150
T_RES == 50000
\* uint8_t bit_index and lock_count
Uint8Mod == 256
\* nullptr
NullPtr == 0

\* wrap-around arithmetic on the counters
U32(x) == x % CounterMod
U8(x) == x % Uint8Mod

\* --------------------------------------------------- caller-owned storage
\* The application's Color array lives at addresses StorageBase ..
\* StorageBase + Len(Storage) - 1; every other address is outside it.
StorageBase == 2
Storage == << [r |-> 255, g |-> 0, b |-> 0], [r |-> 1, g |-> 2, b |-> 4] >>
InStorage(p) == p >= StorageBase /\ p < StorageBase + Len(Storage)
Deref(p) == Storage[p - StorageBase + 1]
\* pointers that ran far past the array are no longer told apart
Beyond == StorageBase + Len(Storage) + 2
PtrInc(p) == IF p >= Beyond THEN Beyond ELSE p + 1

ColorBuffer(s, e) == [start |-> s, end |-> e]
DefaultBuffer == ColorBuffer(NullPtr, NullPtr)
\* the views the application feeds: the second color of the array
FeedViews == { ColorBuffer(StorageBase + 1, StorageBase + 2) }
BufLen(b) == b.end - b.start

\* tick periods (ns) handed to configure: one usable, one unusable
Periods == {410, 600}
\* tick periods (ns) for the study of configure alone: both ends of the
\* accepted range 350 .. 475, the accepted island 325 .. 333 and the rejected
\* periods around them.  On each of them the float computation of configure
\* and the integer computation below give the same counts.
ConfigPeriods == {324, 325, 333, 334, 349, 350, 400, 425, 475, 476}
\* values an uninitialized uint32_t member may hold (0 for an object in
\* static storage)
UninitValues == {0, 1, CounterMod - 1}

\* ----------------------------------------------------------- pure helpers
\* a check that accepts every duration
check_duration_any(required, tested) == TRUE
check_duration(required, tested) ==
    tested >= (required - T_ERROR) /\ tested <= (required + T_ERROR)

\* little-endian layout of union { uint32_t num; Color color; uint8_t arr[4] }
into_32_bit(c) == c.r + 256 * c.g + 65536 * c.b + 16777216 * 0

process_rgb(c) == into_32_bit([r |-> c.g, g |-> c.r, b |-> c.b])

ShiftRight(v, n) == v \div (2^n)

\* ------------------------------------------------------------------ state
VARIABLES
    tx,        \* the Transmitter object
    obs,       \* what the outside sees: pin writes, tick results, elapsed ticks
    pc,        \* statement the main context executes next ("idle": none)
    stack,     \* return labels of the main context's nested calls
    locals,    \* locals of the operation in progress
    returned,  \* value returned by the last finished operation
    preempt,   \* timer interrupts that preempted the operation in progress
    script,    \* position of the application: "setup" (timer interrupt not
               \* yet enabled), "run", or a line of the documented main()
    flag_finished_transmission  \* the application's flag set by timer_ISR

vars == << tx, obs, pc, stack, locals, returned, preempt, script,
           flag_finished_transmission >>

\* a "world": the object together with the observations made on it
World(t, o) == [tx |-> t, obs |-> o]

\* index into tick_counts: C index i is element i + 1
RES == 5
_get_ticks_required_RES(t) == t.tick_counts[RES]

Min(a, b) == IF a < b THEN a ELSE b

\* -------------------------------------------------------- private methods
is_locked(t) == t.lock_count = 0

add_lock(w) == [w EXCEPT !.tx.lock_count = U8(@ + 1)]
\* a guard that is a flag instead of a nesting count
remove_lock_clear(w) == [w EXCEPT !.tx.lock_count = 0]
remove_lock(w) == [w EXCEPT !.tx.lock_count = U8(@ + Uint8Mod - 1)]

is_done(t) == t.data_iterator = t.buffer.end

\* digitalWrite(pin, current_output_level)
write_to_port(w) ==
    LET lvl == IF w.tx.current_output_level THEN 1 ELSE 0 IN
    [w EXCEPT !.obs.pin_hist = << @[2], lvl >>,
              !.obs.flips = Min(@ + 1, 255),
              !.obs.low_ticks = IF lvl = 0 /\ w.obs.pin_hist[2] # 0 THEN 0 ELSE @,
              !.obs.high_ticks = IF lvl = 1 THEN 0 ELSE @,
              !.obs.reset_cause = IF lvl = 1 THEN "none" ELSE @]

\* start_reset, statement by statement
sr_flag(w) ==
    [w EXCEPT !.tx.flag_resetting = TRUE,
              !.obs.reset_done = FALSE,
              !.obs.reset_from = IF w.tx.current_output_level THEN "high"
                                 ELSE "low",
              !.obs.reset_ticks = 0]
sr_level(w) == [w EXCEPT !.tx.current_output_level = FALSE]
sr_zero(w) == [w EXCEPT !.tx.tick_counter = 0]
\* the extension written as an assignment instead of a subtraction
sr_extend_assign(w) ==
    [w EXCEPT !.tx.tick_counter =
                  U32(_get_ticks_required_RES(w.tx) + CounterMod
                      - w.tx.ticks_required)]
sr_extend(w) ==
    [w EXCEPT !.tx.tick_counter =
                  U32(@ + CounterMod
                        - U32(_get_ticks_required_RES(w.tx) + CounterMod
                              - w.tx.ticks_required))]
sr_required(w) == [w EXCEPT !.tx.ticks_required = _get_ticks_required_RES(w.tx)]

start_reset(w) ==
    LET a == sr_flag(w) IN
    sr_required(IF a.tx.current_output_level
                THEN sr_zero(write_to_port(sr_level(a)))
                ELSE sr_extend(a))

start_data(w) ==
    [w EXCEPT !.tx.flag_resetting = FALSE,
              !.tx.ticks_required = 1,
              !.tx.tick_counter = 0,
              \* bit_index == 23;  is a comparison: bit_index keeps its value
              !.tx.data_iterator = w.tx.buffer.start - 1,
              !.obs.flips = 0,
              !.obs.bits_read = 0,
              !.obs.reset_done = FALSE,
              !.obs.reset_from = "none",
              !.obs.reset_ticks = 0]

increase_iterators(w) ==
    LET bi == U8(w.tx.bit_index + 1) IN
    IF bi = 24
    THEN [w EXCEPT !.tx.bit_index = 0,
                   !.tx.data_iterator = PtrInc(@)]
    ELSE [w EXCEPT !.tx.bit_index = bi]

\* ub: the bit an out-of-bounds read (or an over-wide shift) produces
read_bit(w, ub) ==
    LET p == w.tx.data_iterator
        v == IF InStorage(p) /\ w.tx.bit_index < 32
             THEN (ShiftRight(process_rgb(Deref(p)), w.tx.bit_index) % 2) = 1
             ELSE ub
    IN [w EXCEPT !.tx.current_bit_value = v,
                 !.obs.bits_read = Min(@ + 1, 255)]

update_tick_required(w) ==
    [w EXCEPT !.tx.ticks_required =
        w.tx.tick_counts[(IF w.tx.current_bit_value THEN 1 ELSE 0) * 2
                         + (IF w.tx.current_output_level THEN 1 ELSE 0) + 1]]

\* ------------------------------------------------------------------- tick
Result(w, r) == [w |-> w, res |-> r]

\* the Finished transition of tick that leaves the start pending
finish_transmission_keep_start(w) ==
    [start_reset(w) EXCEPT !.obs.reset_cause = "finished"]
\* the Finished transition of tick: start_reset(); flag_start = false;
finish_transmission(w) ==
    [start_reset(w) EXCEPT !.tx.flag_start = FALSE,
                           !.obs.reset_cause = "finished"]

RECURSIVE tick(_, _)
tick(w, ub) ==
    IF is_locked(w.tx) THEN Result(w, "Locked")
    ELSE
    LET w1 == [w EXCEPT !.tx.tick_counter = U32(@ + 1)] IN
    IF w1.tx.tick_counter = w1.tx.ticks_required
    THEN IF ~w1.tx.flag_resetting
         THEN IF w1.tx.current_output_level = FALSE
              THEN LET w2 == increase_iterators(w1) IN
                   IF is_done(w2.tx)
                   THEN Result(finish_transmission(w2), "Finished")
                   ELSE LET w3 == read_bit(w2, ub)
                            w4 == [w3 EXCEPT !.tx.current_output_level = ~@]
                        IN Result(update_tick_required(write_to_port(w4)), "Ok")
              ELSE LET w4 == [w1 EXCEPT !.tx.current_output_level = ~@]
                   IN Result(update_tick_required(write_to_port(w4)), "Ok")
         ELSE IF w1.tx.flag_start
              THEN tick(start_data(w1), ub)
              ELSE Result([w1 EXCEPT !.obs.reset_done = TRUE], "Ok")
    ELSE Result(w1, "Ok")

\* ------------------------------------------------------------- timer_ISR
\* One timer interrupt: tick() and the application's reaction to Finished.
\* low_ticks counts the consecutive ticks that ran since the pin was last
\* driven from high to low, up to the reset count (ticks the guard rejects
\* are not counted, so it never exceeds the ticks that really elapsed).
\* high_ticks counts in the same way the ticks since the last high write,
\* up to one more than the longest bit phase.  reset_ticks counts the ticks
\* that ran in Resetting since the reset phase was last entered, up to two
\* more than the reset count; reset_from is the output level at that entry.
PhaseCap(t) ==
    1 + (CHOOSE m \in {t.tick_counts[i] : i \in 1..4} :
             \A i \in 1..4 : t.tick_counts[i] <= m)
timer_ISR(w, ub) ==
    LET w0 == [w EXCEPT !.obs.low_ticks =
                   IF is_locked(w.tx) THEN @
                   ELSE Min(@ + 1, _get_ticks_required_RES(w.tx)),
                        !.obs.high_ticks =
                   IF is_locked(w.tx) THEN @ ELSE Min(@ + 1, PhaseCap(w.tx)),
                        !.obs.reset_ticks =
                   IF is_locked(w.tx) \/ ~w.tx.flag_resetting THEN @
                   ELSE Min(@ + 1, _get_ticks_required_RES(w.tx) + 2)]
        r == tick(w0, ub)
    IN Result([r.w EXCEPT !.obs.tick_result = r.res], r.res)

\* "Make sure to configure BEFORE enabling the timer interrupt"
UsageLines == {"u_configure", "u_check", "u_feed", "u_start", "u_loop",
               "u_reset", "u_restart", "u_halt"}
TimerEnabled == script \notin {"setup", "u_configure", "u_check"}

Tick ==
    /\ TimerEnabled
    /\ pc = "idle" \/ preempt < MaxPreempt
    /\ preempt' = IF pc = "idle" THEN 0 ELSE preempt + 1
    /\ \E ub \in BOOLEAN :
        LET r == timer_ISR(World(tx, obs), ub) IN
        /\ tx' = r.w.tx
        /\ obs' = r.w.obs
        /\ flag_finished_transmission' =
               IF r.res = "Finished" /\ script \in UsageLines
               THEN TRUE ELSE flag_finished_transmission
        /\ UNCHANGED << pc, stack, locals, returned, script >>

\* --------------------------------------------------------------- configure
\* uint32_t t = D / tick_duration_seconds, then the two check_duration tries;
\* -1 stands for "return false"
\* configure without the second try
BitPhaseCount_one_try(D, P) ==
    IF check_duration(D, (D \div P) * P) THEN D \div P ELSE -1
BitPhaseCount(D, P) ==
    LET t == D \div P IN
    IF check_duration(D, t * P) THEN t
    ELSE IF check_duration(D, (t + 1) * P) THEN t + 1
    ELSE -1

\* the reset count rounded up unconditionally
ResetCount_always_up(P) == (T_RES \div P) + 1
ResetCount(P) ==
    LET t == T_RES \div P IN
    IF t * P < T_RES THEN t + 1 ELSE t

\* the locals t_0_L, t_0_H, t_1_L, t_1_H, t_res in tick_counts order, or
\* << >> when configure returns false
ConfigureCounts(P) ==
    LET t_0_L == BitPhaseCount(T0L, P)
        t_0_H == BitPhaseCount(T0H, P)
        t_1_L == BitPhaseCount(T1L, P)
        t_1_H == BitPhaseCount(T1H, P)
    IN IF t_0_L = -1 \/ t_0_H = -1 \/ t_1_L = -1 \/ t_1_H = -1
       THEN << >>
       ELSE << t_0_L, t_0_H, t_1_L, t_1_H, ResetCount(P) >>

set_ticks_required(w, i, ticks) == [w EXCEPT !.tx.tick_counts[i] = ticks]

\* ------------------------------------------- main context, one statement
NoLocals == [period |-> 0, pin |-> 0, t |-> << >>, arg |-> DefaultBuffer,
             ret |-> DefaultBuffer]
NoReturn == [op |-> "none", val |-> FALSE]

Goto(w, p) ==
    [w |-> w, pc |-> p, stack |-> stack, locals |-> locals,
     returned |-> returned]
CallFn(w, callee, back) ==
    [w |-> w, pc |-> callee, stack |-> << back >> \o stack,
     locals |-> locals, returned |-> returned]
ReturnFn(w, op) ==
    [w |-> w, pc |-> Head(stack), stack |-> Tail(stack), locals |-> locals,
     returned |-> IF Head(stack) = "idle"
                  THEN [op |-> op, val |-> FALSE] ELSE returned]
Finish(w, op, val) ==
    [w |-> w, pc |-> "idle", stack |-> << >>, locals |-> NoLocals,
     returned |-> [op |-> op, val |-> val]]

Statement(w) ==
    CASE pc = "configure_set_RES" ->
           CallFn(set_ticks_required(w, RES, locals.t[RES]),
                  "areset_lock", "configure_set_0_L")
      [] pc = "configure_set_0_L" ->
           Goto(set_ticks_required(w, 1, locals.t[1]), "configure_set_0_H")
      [] pc = "configure_set_0_H" ->
           Goto(set_ticks_required(w, 2, locals.t[2]), "configure_set_1_L")
      [] pc = "configure_set_1_L" ->
           Goto(set_ticks_required(w, 3, locals.t[3]), "configure_set_1_H")
      [] pc = "configure_set_1_H" ->
           Goto(set_ticks_required(w, 4, locals.t[4]), "configure_unlock")
      [] pc = "configure_unlock" ->
           \* pinMode(pin = pin, OUTPUT): the parameter is assigned to
           \* itself, the member pin is not touched
           Finish(remove_lock([w EXCEPT !.obs.pin_mode = locals.pin]),
                  "configure", TRUE)
      [] pc = "feed_exchange" ->
           [CallFn([w EXCEPT !.tx.buffer = locals.arg],
                   "areset_lock", "feed_unlock")
               EXCEPT !.locals.ret = w.tx.buffer]
      [] pc = "feed_unlock" ->
           Finish(remove_lock(w), "feed", locals.ret)
      [] pc = "areset_lock" -> Goto(add_lock(w), "areset_test")
      [] pc = "areset_test" ->
           IF ~w.tx.flag_resetting
           THEN CallFn([w EXCEPT !.obs.reset_cause =
                              IF stack = << "idle" >> THEN "asynch"
                              ELSE "nested"],
                       "sr_flag", "areset_level")
           ELSE Goto(w, "areset_unlock")
      [] pc = "areset_level" ->
           IF w.tx.current_output_level THEN Goto(w, "areset_comp")
           ELSE Goto(w, "areset_unlock")
      [] pc = "areset_comp" ->
           Goto([w EXCEPT !.tx.tick_counter = U32(CounterMod - 1)],
                "areset_unlock")
      [] pc = "areset_unlock" -> ReturnFn(remove_lock(w), "asynch_reset")
      [] pc = "sr_flag" -> Goto(sr_flag(w), "sr_test")
      [] pc = "sr_test" ->
           IF w.tx.current_output_level THEN Goto(w, "sr_level")
           ELSE Goto(w, "sr_extend")
      [] pc = "sr_level" -> Goto(sr_level(w), "sr_write")
      [] pc = "sr_write" -> Goto(write_to_port(w), "sr_zero")
      [] pc = "sr_zero" -> Goto(sr_zero(w), "sr_required")
      [] pc = "sr_extend" -> Goto(sr_extend(w), "sr_required")
      [] pc = "sr_required" -> ReturnFn(sr_required(w), "start_reset")

MainStep ==
    /\ pc # "idle"
    /\ LET n == Statement(World(tx, obs)) IN
       /\ tx' = n.w.tx
       /\ obs' = n.w.obs
       /\ pc' = n.pc
       /\ stack' = n.stack
       /\ locals' = n.locals
       /\ returned' = n.returned
       /\ preempt' = IF n.pc = "idle" THEN 0 ELSE preempt
    /\ UNCHANGED << script, flag_finished_transmission >>

\* ------------------------------------------- calls of the public operations
\* Each call executes the operation's first statement; configure also
\* computes its locals, which touches nothing the interrupt reads, and
\* returns false from there without unlock().
\* a configure that clears the table before it validates the period
configure_clear_first(pin, tick_duration) ==
    /\ pc = "idle"
    /\ LET w == add_lock(World([tx EXCEPT !.tick_counts = << 0, 0, 0, 0, 0 >>],
                               [obs EXCEPT !.period = tick_duration]))
       IN tx' = w.tx /\ obs' = w.obs
    /\ LET t == ConfigureCounts(tick_duration) IN
       IF t = << >>
       THEN /\ returned' = [op |-> "configure", val |-> FALSE]
            /\ UNCHANGED << pc, stack, locals >>
       ELSE /\ pc' = "configure_set_RES"
            /\ stack' = << >>
            /\ locals' = [NoLocals EXCEPT !.period = tick_duration,
                                          !.pin = pin, !.t = t]
            /\ UNCHANGED returned
    /\ UNCHANGED << preempt, flag_finished_transmission >>
configure(pin, tick_duration) ==
    /\ pc = "idle"
    /\ LET w == add_lock(World(tx, [obs EXCEPT !.period = tick_duration]))
       IN tx' = w.tx /\ obs' = w.obs
    /\ LET t == ConfigureCounts(tick_duration) IN
       IF t = << >>
       THEN /\ returned' = [op |-> "configure", val |-> FALSE]
            /\ UNCHANGED << pc, stack, locals >>
       ELSE /\ pc' = "configure_set_RES"
            /\ stack' = << >>
            /\ locals' = [NoLocals EXCEPT !.period = tick_duration,
                                          !.pin = pin, !.t = t]
            /\ UNCHANGED returned
    /\ UNCHANGED << preempt, flag_finished_transmission >>

feed(buffer) ==
    /\ pc = "idle"
    /\ LET w == add_lock(World(tx, [obs EXCEPT !.fed_over = tx.buffer]))
       IN tx' = w.tx /\ obs' = w.obs
    /\ pc' = "feed_exchange"
    /\ stack' = << >>
    /\ locals' = [NoLocals EXCEPT !.arg = buffer]
    /\ UNCHANGED << returned, preempt, flag_finished_transmission >>

start ==
    /\ pc = "idle"
    /\ tx' = [tx EXCEPT !.flag_start = TRUE]
    /\ returned' = [op |-> "start", val |-> FALSE]
    /\ UNCHANGED << obs, pc, stack, locals, preempt,
                    flag_finished_transmission >>

asynch_reset ==
    /\ pc = "idle"
    /\ LET w == add_lock(World(tx, obs)) IN tx' = w.tx /\ obs' = w.obs
    /\ pc' = "areset_test"
    /\ stack' = << "idle" >>
    /\ UNCHANGED << locals, returned, preempt, flag_finished_transmission >>

TxPin == 6

\* ------------------------------------------------------- the application
\* main() of the usage example, with the retry the error handling asks for:
\* configure until a period is accepted (script "setup"), enable the timer
\* interrupt, feed ("attach"), start ("arm"), then one further call of a
\* public operation at any later time ("run"), then nothing ("end").
SetupConfigure ==
    /\ script = "setup"
    /\ \E P \in Periods :
          /\ ConfigureCounts(P) = << >> => tx.lock_count < MaxLeak
          /\ configure(TxPin, P)
    /\ UNCHANGED script

EnableTimer ==
    /\ script = "setup"
    /\ pc = "idle"
    /\ returned = [op |-> "configure", val |-> TRUE]
    /\ script' = "attach"
    /\ UNCHANGED << tx, obs, pc, stack, locals, returned, preempt,
                    flag_finished_transmission >>

AttachFeed ==
    /\ script = "attach"
    /\ \E b \in FeedViews : feed(b)
    /\ script' = "arm"

ArmStart ==
    /\ script = "arm"
    /\ start
    /\ script' = "run"

CallStart ==
    /\ script = "run"
    /\ start
    /\ script' = "end"

CallAsynchReset ==
    /\ script = "run"
    /\ asynch_reset
    /\ script' = "end"

CallFeed ==
    /\ script = "run"
    /\ \E b \in FeedViews : feed(b)
    /\ script' = "end"

CallConfigure ==
    /\ script = "run"
    /\ \E P \in Periods :
          /\ ConfigureCounts(P) = << >> => tx.lock_count < MaxLeak
          /\ configure(TxPin, P)
    /\ script' = "end"

\* ------------------------------------------------------------------- Init
InitObs == [pin_hist |-> << -1, -1 >>, pin_mode |-> -1, tick_result |-> "none",
            period |-> 0, fed_over |-> DefaultBuffer, high_ticks |-> 0,
            reset_ticks |-> 0, reset_from |-> "none",
            low_ticks |-> 0, reset_cause |-> "none", reset_done |-> FALSE,
            flips |-> 0, bits_read |-> 0]

\* an object constructed with a start already pending
InitTx_start_pending(u) ==
    [tick_counts |-> << 0, 0, 0, 0, 0 >>, pin |-> 0, buffer |-> DefaultBuffer,
     lock_count |-> 0, flag_start |-> TRUE, flag_resetting |-> FALSE,
     current_bit_value |-> FALSE, current_output_level |-> FALSE,
     tick_counter |-> 0, ticks_required |-> u,
     bit_index |-> U8(Uint8Mod - 1), data_iterator |-> NullPtr]
InitTx(u) == [tick_counts |-> << 0, 0, 0, 0, 0 >>,
              pin |-> 0,
              buffer |-> DefaultBuffer,
              lock_count |-> 0,
              flag_start |-> FALSE,
              flag_resetting |-> FALSE,
              current_bit_value |-> FALSE,
              current_output_level |-> FALSE,
              tick_counter |-> 0,
              ticks_required |-> u,
              bit_index |-> U8(Uint8Mod - 1),
              data_iterator |-> NullPtr]

InitCommon ==
    /\ \E u \in UninitValues : tx = InitTx(u)
    /\ obs = InitObs
    /\ pc = "idle"
    /\ stack = << >>
    /\ locals = NoLocals
    /\ returned = NoReturn
    /\ preempt = 0
    /\ flag_finished_transmission = FALSE

Init == InitCommon /\ script = "setup"

Next ==
    \/ SetupConfigure
    \/ EnableTimer
    \/ AttachFeed
    \/ ArmStart
    \/ CallStart
    \/ CallAsynchReset
    \/ CallFeed
    \/ CallConfigure
    \/ MainStep
    \/ Tick

Spec == Init /\ [][Next]_vars

\* The same application when the one further call is start or asynch_reset,
\* the two calls of the documented main loop.
NextRestart ==
    \/ SetupConfigure
    \/ EnableTimer
    \/ AttachFeed
    \/ ArmStart
    \/ CallStart
    \/ CallAsynchReset
    \/ MainStep
    \/ Tick

SpecRestart == Init /\ [][NextRestart]_vars

\* ------------------------------------------- the documented usage example
\* main() and timer_ISR() of the class comment, line by line; the period is
\* one configure accepts.
UsagePeriod == CHOOSE P \in Periods : ConfigureCounts(P) # << >>

UsageMain ==
    /\ pc = "idle"
    /\ CASE script = "u_configure" ->
             /\ configure(TxPin, UsagePeriod)
             /\ script' = "u_check"
        [] script = "u_check" ->
             /\ script' = IF returned.val = TRUE THEN "u_feed" ELSE "u_halt"
             /\ UNCHANGED << tx, obs, pc, stack, locals, returned, preempt,
                             flag_finished_transmission >>
        [] script = "u_feed" ->
             /\ \E b \in FeedViews : feed(b)
             /\ script' = "u_start"
        [] script = "u_start" ->
             /\ start
             /\ script' = "u_loop"
        [] script = "u_loop" ->
             /\ flag_finished_transmission
             /\ flag_finished_transmission' = FALSE
             /\ script' = "u_reset"
             /\ UNCHANGED << tx, obs, pc, stack, locals, returned, preempt >>
        [] script = "u_reset" ->
             /\ asynch_reset
             /\ script' = "u_restart"
        [] script = "u_restart" ->
             /\ start
             /\ script' = "u_loop"
        [] OTHER -> FALSE

InitUsage == InitCommon /\ script = "u_configure"

NextUsage ==
    \/ UsageMain
    \/ MainStep
    \/ Tick

\* the timer keeps firing and the main context keeps running
SpecUsage ==
    /\ InitUsage
    /\ [][NextUsage]_vars
    /\ WF_vars(Tick) /\ WF_vars(MainStep) /\ WF_vars(UsageMain)

\* ------------------------------------------------ configure on its own
\* The application before the timer interrupt is enabled: any sequence of
\* configure calls with any period, and of the other public operations.
ConfigureAny ==
    /\ script = "setup"
    /\ \E P \in ConfigPeriods :
          /\ ConfigureCounts(P) = << >> => tx.lock_count < MaxLeak
          /\ configure(TxPin, P)
    /\ UNCHANGED script

FeedAny ==
    /\ script = "setup"
    /\ \E b \in FeedViews \cup {DefaultBuffer} : feed(b)
    /\ UNCHANGED script

StartAny ==
    /\ script = "setup"
    /\ ~tx.flag_start
    /\ start
    /\ UNCHANGED script

AsynchResetAny ==
    /\ script = "setup"
    /\ asynch_reset
    /\ UNCHANGED script

NextConfigure ==
    \/ ConfigureAny
    \/ FeedAny
    \/ StartAny
    \/ AsynchResetAny
    \/ MainStep

SpecConfigure == Init /\ [][NextConfigure]_vars

\* ------------------------------------------------ transmitting nothing
\* The application that attaches an empty view, or none at all, and starts.
\* The first empty view has nothing of the array in front of it, the second
\* has the array's first color in front of it.
EmptyViews == { ColorBuffer(StorageBase, StorageBase),
                ColorBuffer(StorageBase + 1, StorageBase + 1) }

AttachEmpty ==
    /\ script = "attach"
    /\ \E b \in EmptyViews : feed(b)
    /\ script' = "arm"

ArmUnfed ==
    /\ script = "attach"
    /\ start
    /\ script' = "end"

ArmEmpty ==
    /\ script = "arm"
    /\ start
    /\ script' = "end"

NextEmpty ==
    \/ SetupConfigure
    \/ EnableTimer
    \/ AttachEmpty
    \/ ArmUnfed
    \/ ArmEmpty
    \/ MainStep
    \/ Tick

SpecEmpty == Init /\ [][NextEmpty]_vars

\* ================================================================ claims
ConfiguredResetCount == _get_ticks_required_RES(tx)

\* a step in which the pin is written high
HighWrite ==
    /\ obs'.pin_hist[2] = 1
    /\ obs'.pin_hist # obs.pin_hist \/ obs'.flips # obs.flips

\* the 24-bit payload as the specification states it
SpecPayload(c) == c.g + 256 * c.r + 65536 * c.b
SpecBit(c, i) == ((SpecPayload(c) \div (2^i)) % 2) = 1

\* C1: a tick invoked while the guard is held (lock_count > 0) returns
\* Locked and changes nothing of the transmitter and writes no pin.
C1_LockedTickChangesNothing ==
    [][(Tick /\ tx.lock_count > 0)
        => (obs'.tick_result = "Locked" /\ tx' = tx
            /\ obs'.pin_hist = obs.pin_hist)]_vars

\* C2: no tick runs the state machine while a configure, feed or
\* asynch_reset call is in progress.
C2_NoTickInsideCall ==
    [][(Tick /\ pc # "idle") => obs'.tick_result = "Locked"]_vars

\* C3: a tick invoked while nothing holds the guard (lock_count = 0) runs
\* the state machine and returns Ok or Finished, never Locked.
C3_UnlockedTickRuns ==
    [][(Tick /\ tx.lock_count = 0)
        => obs'.tick_result \in {"Ok", "Finished"}]_vars

\* C4: when a transmission of the fed buffer of N colors that no call
\* interrupted reports Finished, the pin has been flipped exactly 2*24*N
\* times since the machine left Resetting.
C4_FlipsPerTransmission ==
    [][(Tick /\ script = "run" /\ obs'.tick_result = "Finished")
        => obs'.flips = 2 * 24 * BufLen(tx.buffer)]_vars

\* C5: the k-th bit decoded after leaving Resetting is bit (k mod 24) of
\* the payload g + 256*r + 65536*b of the color at position (k div 24) of
\* the Buffer View, for k = 0 .. 24N-1.
C5_BitOrder ==
    [][(Tick /\ script = "run"
             /\ ~tx.current_output_level /\ tx'.current_output_level)
        => LET k == obs'.bits_read - 1
               p == tx.buffer.start + (k \div 24)
           IN /\ k < 24 * BufLen(tx.buffer)
              /\ tx'.data_iterator = p
              /\ tx'.bit_index = k % 24
              /\ tx'.current_bit_value = SpecBit(Deref(p), k % 24)]_vars

\* C6: after tick reports Finished the pin stays low, and the next
\* pin-high write comes only when the pin has been low for at least the
\* configured reset tick count of ticks, however soon start is called.
C6_ResetPulseAfterFinished ==
    [][(HighWrite /\ obs.reset_cause = "finished")
        => (obs.pin_hist[2] = 0 /\ obs'.low_ticks >= ConfiguredResetCount)]_vars

\* a retransmission has begun: the first bit after a Finished and a new
\* start is on the pin
C6_Witness ==
    /\ script = "end" /\ pc = "idle" /\ returned.op = "start"
    /\ obs.pin_hist = << 0, 1 >>
    /\ obs.bits_read = 1 /\ obs.flips = 1 /\ tx.bit_index = 1
    /\ tx.current_output_level
    /\ obs.low_ticks = ConfiguredResetCount /\ ConfiguredResetCount > 0

\* C7: after asynch_reset is called at any point of a transmission, the
\* next pin-high write comes only when the pin has been low for at least
\* the configured reset tick count of consecutive ticks.
C7_ResetPulseAfterAsynchReset ==
    [][(HighWrite /\ obs.reset_cause = "asynch")
        => (obs.pin_hist[2] = 0 /\ obs'.low_ticks >= ConfiguredResetCount)]_vars

\* C8: the pin is never written high twice in a row without a low write
\* in between.
C8_NoTwoHighWrites == obs.pin_hist # << 1, 1 >>

\* C9: when the reset threshold was reached with no start pending and
\* start has been called since, the next tick that runs the state machine
\* leaves Resetting.
C9_StartAfterThreshold ==
    [][(Tick /\ obs'.tick_result # "Locked" /\ tx.flag_resetting
             /\ tx.flag_start /\ obs.reset_done)
        => ~tx'.flag_resetting]_vars

\* C10: under the documented usage tick reports Finished infinitely often.
C10_FinishedInfinitelyOften == []<>(obs.tick_result = "Finished")

\* the four bit-phase durations in Timing Table order
SpecDurations == << T0L, T0H, T1L, T1H >>
InWindow(D, x) == D - T_ERROR <= x /\ x <= D + T_ERROR
SpecAccepts(P) ==
    \A i \in 1..4 :
        LET D == SpecDurations[i] IN
        InWindow(D, (D \div P) * P) \/ InWindow(D, ((D \div P) + 1) * P)
ConfigureReturned(v) ==
    pc = "idle" /\ returned = [op |-> "configure", val |-> v]

\* C11: configure returns success if and only if, for each of the four
\* bit-phase durations D, floor(D/P)*P or (floor(D/P)+1)*P lies within
\* T_ERROR of D; on success every installed bit-phase count c has c*P
\* within T_ERROR of its D.
C11_ConfigureAcceptance ==
    (pc = "idle" /\ returned.op = "configure")
        => /\ (returned.val = TRUE) <=> SpecAccepts(obs.period)
           /\ (returned.val = TRUE) =>
                  \A i \in 1..4 :
                      InWindow(SpecDurations[i], tx.tick_counts[i] * obs.period)

\* a period accepted only through the second try: 850 div 333 = 2, 3 fits
C11_Witness ==
    /\ ConfigureReturned(TRUE) /\ obs.period = 333
    /\ tx.tick_counts[1] = 3 /\ tx.tick_counts[1] # T0L \div obs.period

\* C12: a configure call that fails leaves all five Timing Table counts
\* and the bound pin exactly as they were before the call.
C12_FailedConfigureKeepsConfiguration ==
    [][(pc = "idle" /\ pc' = "idle" /\ tx'.lock_count # tx.lock_count
            /\ returned' = [op |-> "configure", val |-> FALSE])
        => (tx'.tick_counts = tx.tick_counts /\ tx'.pin = tx.pin
            /\ obs'.pin_mode = obs.pin_mode)]_vars

\* a configure has failed after an earlier one had installed a table
C12_Witness ==
    /\ ConfigureReturned(FALSE) /\ obs.pin_mode = TxPin
    /\ ConfigureCounts(obs.period) = << >>
    /\ tx.tick_counts[RES] > 0 /\ tx.lock_count > 0

\* C13: after a successful configure the installed reset count C has
\* C*P >= T_RES and (C-1)*P < T_RES.
C13_MinimalResetCount ==
    ConfigureReturned(TRUE)
        => LET C == tx.tick_counts[RES]
               P == obs.period
           IN C * P >= T_RES /\ (C - 1) * P < T_RES

\* a period that divides T_RES: the truncated quotient is already enough
C13_Witness ==
    /\ ConfigureReturned(TRUE) /\ obs.period = 400
    /\ tx.tick_counts[RES] = 125 /\ tx.tick_counts[RES] * obs.period = T_RES

\* C14: once a configure has succeeded, all five Timing Table entries are
\* >= 1 in every later state, whatever is called afterwards.
C14_TableEntriesPositive ==
    obs.pin_mode # -1 => \A i \in 1..5 : tx.tick_counts[i] >= 1

\* a later configure is half way through rewriting an installed table,
\* after another one had failed
C14_Witness ==
    /\ obs.pin_mode # -1 /\ pc = "configure_set_1_L" /\ tx.lock_count > 1
    /\ tx.tick_counts[1] # tx.tick_counts[3]

\* C15: feed(new) returns the view attached immediately before the call,
\* installs new, and leaves the machine in Resetting with the output low.
C15_FeedExchangesAndResets ==
    [][(pc = "feed_unlock" /\ pc' = "idle")
        => /\ returned' = [op |-> "feed", val |-> obs.fed_over]
           /\ tx'.buffer = locals.arg
           /\ tx'.flag_resetting
           /\ ~tx'.current_output_level
           /\ obs'.pin_hist[2] # 1]_vars

\* C16: after configure has succeeded, with no buffer fed and start never
\* called, no tick reports Finished and the machine stays in Resetting
\* with the pin never written high.
C16_IdleStaysResetting ==
    script = "attach"
        => /\ obs.tick_result # "Finished"
           /\ tx.flag_resetting
           /\ obs.pin_hist[2] # 1

\* ticks have run the state machine past the reset threshold
C16_Witness ==
    /\ script = "attach" /\ pc = "idle" /\ obs.tick_result = "Ok"
    /\ obs.reset_done /\ tx.tick_counter > ConfiguredResetCount
    /\ ConfiguredResetCount > 0

\* C17: with an empty Buffer View attached (the never-fed default view
\* included), a pending start is answered by Finished without any color
\* being decoded and without the pin being written high.
C17_EmptyViewSendsNothing ==
    BufLen(tx.buffer) = 0 => (obs.bits_read = 0 /\ obs.pin_hist[2] # 1)

\* C18: while a configure, feed or asynch_reset call is in progress the
\* guard's nesting count is > 0; the release of the nested asynch_reset
\* does not bring it to 0.
C18_GuardHeldDuringCall == pc # "idle" => tx.lock_count > 0

\* feed after its nested asynch_reset has released: one level is left
C18_Witness ==
    /\ pc = "feed_unlock" /\ stack = << >> /\ tx.lock_count = 1
    /\ tx.buffer \in FeedViews

\* the Timing Table count of (bit value, output level)
SpecCount(b, high) ==
    tx.tick_counts[IF b THEN (IF high THEN 4 ELSE 3)
                        ELSE (IF high THEN 2 ELSE 1)]

\* C19: while Transmitting, with no call in progress, a high phase of a
\* bit b that ends has lasted exactly the count of (b, High) ticks, and a
\* low phase that ends (by the next bit or by Finished) has lasted exactly
\* the count of (b, Low) ticks.
C19_PhaseLengths ==
    [][(Tick /\ pc = "idle" /\ script = "run" /\ ~tx.flag_resetting
             /\ (tx'.current_output_level # tx.current_output_level
                 \/ obs'.tick_result = "Finished"))
        => IF tx.current_output_level
           THEN obs'.high_ticks = SpecCount(tx.current_bit_value, TRUE)
           ELSE obs'.low_ticks = SpecCount(tx.current_bit_value, FALSE)]_vars

\* C20: when asynch_reset, called during a transmission, returns, the
\* machine is Resetting, the output level is low, the required threshold
\* is the configured reset count and the tick counter is within
\* 0 .. reset count.
C20_WellFormedResetting ==
    [][(pc = "areset_unlock" /\ pc' = "idle"
             /\ obs.reset_cause = "asynch")
        => /\ tx'.flag_resetting
           /\ ~tx'.current_output_level
           /\ tx'.ticks_required = ConfiguredResetCount
           /\ tx'.tick_counter <= ConfiguredResetCount]_vars

\* a tick that runs the state machine in Resetting and meets the threshold
ThresholdTick ==
    /\ Tick
    /\ obs'.tick_result # "Locked"
    /\ tx.flag_resetting
    /\ U32(tx.tick_counter + 1) = tx.ticks_required

\* C21: when the reset phase is entered during a transmission while the
\* output is already low (by asynch_reset, feed or the Finished transition),
\* the reset threshold is reached no more than reset-count ticks after the
\* entry.
C21_ExtendedResetNotLonger ==
    [][(ThresholdTick /\ pc = "idle" /\ obs.reset_from = "low"
             /\ obs.reset_cause \in {"finished", "asynch"})
        => obs.reset_ticks + 1 <= ConfiguredResetCount]_vars

\* C22: when asynch_reset is invoked while the output is high and no tick
\* interrupts it, it leaves the pin driven low and the tick counter at -1.
C22_CompensatedCounter ==
    [][(pc \in {"areset_level", "areset_comp"} /\ pc' = "areset_unlock"
             /\ preempt = 0 /\ obs.reset_from = "high")
        => (obs'.pin_hist[2] = 0 /\ tx'.tick_counter = U32(CounterMod - 1))]_vars

\* C23: when tick reports Finished the start-pending flag is clear, and as
\* long as start is not called again the machine stays in Resetting and
\* the pin is not written high.
C23_FinishedClearsStart ==
    [][/\ (Tick /\ obs'.tick_result = "Finished") => ~tx'.flag_start
       /\ (obs.reset_cause = "finished" /\ ~tx.flag_start /\ ~tx'.flag_start)
              => (tx'.flag_resetting /\ ~HighWrite)]_vars

\* a transmission has finished and the reset threshold has long passed
\* with no new start
C23_Witness ==
    /\ obs.reset_cause = "finished" /\ ~tx.flag_start /\ tx.flag_resetting
    /\ obs.reset_done /\ obs.tick_result = "Ok" /\ pc = "idle"
    /\ obs.reset_ticks > ConfiguredResetCount /\ obs.pin_hist = << 1, 0 >>

\* C24: every color tick reads is at a cursor position inside the attached
\* Buffer View [start, end), with a bit index in 0..23.
C24_ReadsInsideView ==
    [][(Tick /\ ~tx.current_output_level /\ tx'.current_output_level)
        => /\ tx'.data_iterator >= tx.buffer.start
           /\ tx'.data_iterator < tx.buffer.end
           /\ tx'.bit_index \in 0..23]_vars

\* C25: the guard's nesting count is 0 whenever no non-interrupt operation
\* is in progress.
C25_GuardBalanced == pc = "idle" => tx.lock_count = 0


====
